---------------------------- MODULE Spec2Model ----------------------------
(***************************************************************************)
(* Ingestion and indexing core of the document management backend:         *)
(* page-number allocation, PDF splitting, OCR at ingest and batch re-OCR,  *)
(* page persistence, document counters and the full-text index.            *)
(*                                                                         *)
(* The relational store is better-sqlite3 (synchronous): every statement   *)
(* run between two awaits of a handler is one atomic step.  A handler is   *)
(* therefore cut into one action per await point.                          *)
(***************************************************************************)
EXTENDS Integers, Sequences, FiniteSets

(* ----------------------------- bounds ---------------------------------- *)
\* rows the document_pages table may hold
MaxPages == 3
\* pages the renderer may emit for one PDF
MaxBatch == 3
\* pages a maintenance run works on
MaxMaintained == 2
\* pages the overlapping uploads may create
MaxRacing == 2
\* rows of document_pages when the index methods are called directly
MaxIndexed == 2
\* rows one search statement returns to the grouping of the route
MaxRows == 3

(* ------------------------ program constants ---------------------------- *)
HTTP_OK == 200
HTTP_BAD_REQUEST == 400
HTTP_FORBIDDEN == 403
HTTP_NOT_FOUND == 404
HTTP_INTERNAL_SERVER_ERROR == 500

ACTIVE == "active"
INACTIVE == "inactive"

(* ------------------------------ domains -------------------------------- *)
\* documents exist before any page is ingested into them
Docs == {1, 2}
\* request slots of POST /:documentId/pages
Uploads == {1, 2}
\* rows of the projects table; document d belongs to project ProjectOf(d)
Projects == {1, 2}
ProjectOf(documentId) == documentId
\* rows of the users table: user 1 has a role with admin_access, users 2 and
\* 3 share a role that has document_view only
Users == {1, 2, 3}
RoleOf(userId) == IF userId = 1 THEN 1 ELSE 2
PermissionsOf(userId) ==
    IF userId = 1 THEN {"admin_access", "document_view"} ELSE {"document_view"}

\* A nullable column or JS value: <<>> is NULL/undefined, <<v>> is the value v.
Null == <<>>
Some(v) == <<v>>
IsNull(x) == x = <<>>
Val(x) == x[1]

\* Text is a sequence of characters; " " is the whitespace character.
Whitespace == {" "}

\* What the OCR engine may answer for one image (text, confidence, wordCount).
OcrResults ==
    { [text |-> <<>>,      confidence |-> 0,  wordCount |-> 0],
      [text |-> <<" ">>,   confidence |-> 50, wordCount |-> 0],
      [text |-> <<"a">>,   confidence |-> 85, wordCount |-> 1] }

\* Outcome of one OCRService.performOCR call: an answer, or a throw (Null).
OcrOutcomes == {Some(r) : r \in OcrResults} \cup {Null}

(* --------------------------- pure helpers ------------------------------ *)
RECURSIVE TrimLeft(_)
TrimLeft(s) ==
    IF s = <<>> THEN <<>>
    ELSE IF Head(s) \in Whitespace THEN TrimLeft(Tail(s)) ELSE s

RECURSIVE TrimRight(_)
TrimRight(s) ==
    IF s = <<>> THEN <<>>
    ELSE IF s[Len(s)] \in Whitespace THEN TrimRight(SubSeq(s, 1, Len(s) - 1)) ELSE s

\* String.prototype.trim
Trim(s) == TrimRight(TrimLeft(s))

\* JS truthiness of a string-or-null value: null and '' are falsy
Truthy(x) == ~IsNull(x) /\ Val(x) # <<>>

\* JS `v || null` on a string
OrNull(x) == IF Truthy(x) THEN x ELSE Null

\* JS `n || null` on a number (0 is falsy)
NumOrNull(n) == IF n # 0 THEN Some(n) ELSE Null

RECURSIVE SumSeq(_)
SumSeq(s) == IF s = <<>> THEN 0 ELSE Head(s) + SumSeq(Tail(s))

Max(S) == CHOOSE m \in S : \A x \in S : x <= m

(* ------------------------------- state --------------------------------- *)
VARIABLES
    documents,       \* table documents: id -> row
    document_pages,  \* table document_pages: sequence of rows, id = position
    document_fts,    \* table document_fts: bag of rows (row -> copies)
    files,           \* temp files of each upload request
    uploads,         \* POST /:documentId/pages requests in flight, per slot
    ocrJob,          \* POST /:documentId/ocr request in flight
    reorderReq,      \* PUT /:documentId/pages/reorder request being answered
    projects,        \* table projects: id -> row
    project_roles,   \* table project_roles: set of (project_id, role_id)
    user_project_access, \* table user_project_access: set of (user_id, project_id)
    call             \* the last direct call of a Models method and its result

\* the tables the ingestion routes only read
tables == <<projects, project_roles, user_project_access>>

vars == <<documents, document_pages, document_fts, files, uploads, ocrJob, reorderReq, tables, call>>

PageIds == 1..Len(document_pages)

\* (status IS NULL OR status = 'active'); the column defaults to 'active'
IsActive(row) == row.status = ACTIVE

ActivePagesOf(pages, documentId) ==
    {id \in 1..Len(pages) : pages[id].document_id = documentId /\ IsActive(pages[id])}

(* ------------------------ full-text index table ------------------------ *)
EmptyFts == <<>>

FtsRow(pageId, documentId, text) ==
    [page_id |-> pageId, document_id |-> documentId, page_text |-> text]

\* INSERT INTO document_fts ... (no key: a second insert adds a second row)
FtsInsert(fts, row) ==
    IF row \in DOMAIN fts
    THEN [fts EXCEPT ![row] = @ + 1]
    ELSE [r \in DOMAIN fts \cup {row} |-> IF r = row THEN 1 ELSE fts[r]]

\* DELETE FROM document_fts WHERE page_id = ?
FtsDeletePage(fts, pageId) ==
    [r \in {x \in DOMAIN fts : x.page_id # pageId} |-> fts[r]]

\* a faulty delete that only removes the rows of the document's first page
FtsDeleteDocument_FirstPage(fts, documentId) ==
    LET rows == {x \in DOMAIN fts : x.document_id = documentId}
    IN  IF rows = {} THEN fts
        ELSE LET first == CHOOSE x \in rows : \A y \in rows : x.page_id <= y.page_id
             IN [r \in {x \in DOMAIN fts : x.page_id # first.page_id} |-> fts[r]]

\* DELETE FROM document_fts WHERE document_id = ?
FtsDeleteDocument(fts, documentId) ==
    [r \in {x \in DOMAIN fts : x.document_id # documentId} |-> fts[r]]

RECURSIVE FtsCopies(_, _)
FtsCopies(fts, rows) ==
    IF rows = {} THEN 0
    ELSE LET r == CHOOSE x \in rows : TRUE
         IN fts[r] + FtsCopies(fts, rows \ {r})

\* number of index rows whose page_id is pageId
FtsEntriesOf(fts, pageId) ==
    FtsCopies(fts, {r \in DOMAIN fts : r.page_id = pageId})

\* number of rows of the index
FtsCount(fts) == FtsCopies(fts, DOMAIN fts)


(* --------------------------- table documents --------------------------- *)
\* UPDATE documents SET total_pages = total_pages + ? WHERE id = ?
incrementPageCount(docs, documentId, increment) ==
    [docs EXCEPT ![documentId].total_pages = @ + increment]

\* UPDATE documents SET has_ocr_text = ?, ... WHERE id = ?
updateOCRStatus(docs, documentId, hasOCRText) ==
    [docs EXCEPT ![documentId].has_ocr_text = hasOCRText]

\* a faulty lookup that accepts a document of any status
DocumentIsActive_AnyStatus(docs, documentId) == documentId \in DOMAIN docs

\* Document.findById(id) followed by the status test of the upload route
DocumentIsActive(docs, documentId) == docs[documentId].status = ACTIVE

\* Document.findByIdWithDetails(id): a row only WHERE d.status = 'active'
findByIdWithDetails(docs, documentId) ==
    IF docs[documentId].status = ACTIVE THEN Some(docs[documentId]) ELSE Null

(* ------------------------- table document_pages ------------------------ *)
\* a faulty allocator that counts the active pages instead of taking their
\* highest number
getNextPageNumber_ByCount(pages, documentId) ==
    Cardinality(ActivePagesOf(pages, documentId)) + 1

\* SELECT MAX(page_number) ... WHERE document_id = ? AND status active;
\* (max_page || 0) + 1
getNextPageNumber(pages, documentId) ==
    LET act == ActivePagesOf(pages, documentId)
    IN  IF act = {} THEN 1
        ELSE Max({pages[id].page_number : id \in act}) + 1

\* a faulty mapping that stores an empty string when there is no OCR result
IngestOcrText_EmptyString(ocrData) ==
    IF IsNull(ocrData) THEN Some(<<>>) ELSE OrNull(Some(Val(ocrData).text))

\* One OCR outcome as the page columns written at ingest:
\* ocr_text: ocrData?.text || null, ocr_confidence: ocrData?.confidence || null,
\* ocr_processed_at: ocrData ? now : null, word_count: ocrData?.wordCount || 0
IngestOcrText(ocrData) ==
    IF IsNull(ocrData) THEN Null ELSE OrNull(Some(Val(ocrData).text))

IngestOcrConfidence(ocrData) ==
    IF IsNull(ocrData) THEN Null ELSE NumOrNull(Val(ocrData).confidence)

IngestWordCount(ocrData) ==
    IF IsNull(ocrData) THEN 0 ELSE Val(ocrData).wordCount

\* pageData of processPDFPages / processSingleImage
PageData(documentId, pageNumber, ocrData) ==
    [document_id    |-> documentId,
     page_number    |-> pageNumber,
     page_order     |-> pageNumber,
     thumbnail_path |-> Some("thumb"),
     ocr_text       |-> IngestOcrText(ocrData),
     ocr_confidence |-> IngestOcrConfidence(ocrData),
     ocr_processed  |-> ~IsNull(ocrData),
     word_count     |-> IngestWordCount(ocrData)]

\* a faulty insert that moves a page to the next free number when an active
\* page of the document already holds the requested one
createPage_NextFree(pages, pageData) ==
    LET taken == \E id \in ActivePagesOf(pages, pageData.document_id) :
                     pages[id].page_number = pageData.page_number
        number == IF taken THEN getNextPageNumber(pages, pageData.document_id)
                  ELSE pageData.page_number
    IN  Append(pages, [document_id    |-> pageData.document_id,
                       page_number    |-> number,
                       page_order     |-> number,
                       thumbnail_path |-> pageData.thumbnail_path,
                       ocr_text       |-> pageData.ocr_text,
                       ocr_confidence |-> pageData.ocr_confidence,
                       ocr_processed  |-> pageData.ocr_processed,
                       word_count     |-> pageData.word_count,
                       status         |-> ACTIVE])

\* DocumentPage.createPage: INSERT with status 'active'; the new id is the
\* next AUTOINCREMENT value
createPage(pages, pageData) ==
    Append(pages, [document_id    |-> pageData.document_id,
                   page_number    |-> pageData.page_number,
                   page_order     |-> pageData.page_order,
                   thumbnail_path |-> pageData.thumbnail_path,
                   ocr_text       |-> pageData.ocr_text,
                   ocr_confidence |-> pageData.ocr_confidence,
                   ocr_processed  |-> pageData.ocr_processed,
                   word_count     |-> pageData.word_count,
                   status         |-> ACTIVE])

\* DocumentPage.updateOCRData: UPDATE ... WHERE id = ? (no status test)
updateOCRData(pages, pageId, ocrText, confidence, wordCount) ==
    IF pageId \in 1..Len(pages)
    THEN [pages EXCEPT ![pageId].ocr_text = Some(ocrText),
                       ![pageId].ocr_confidence = Some(confidence),
                       ![pageId].ocr_processed = TRUE,
                       ![pageId].word_count = wordCount]
    ELSE pages

\* ocr_text IS NOT NULL AND ocr_text != ''
HasOcrTextSql(row) == ~IsNull(row.ocr_text) /\ Val(row.ocr_text) # <<>>

(* ------------------------- Models (index upkeep) ----------------------- *)
\* a faulty upsert that tests the text without trimming it
updateFTSIndex_NoTrim(fts, pageId, documentId, ocrText) ==
    LET cleared == FtsDeletePage(fts, pageId)
    IN  IF Truthy(ocrText)
        THEN FtsInsert(cleared, FtsRow(pageId, documentId, Val(ocrText)))
        ELSE cleared

\* Models.updateFTSIndex: delete the page's rows, insert one when
\* ocrText && ocrText.trim().length > 0
updateFTSIndex(fts, pageId, documentId, ocrText) ==
    LET cleared == FtsDeletePage(fts, pageId)
    IN  IF Truthy(ocrText) /\ Len(Trim(Val(ocrText))) > 0
        THEN FtsInsert(cleared, FtsRow(pageId, documentId, Val(ocrText)))
        ELSE cleared

RECURSIVE FtsInsertAll(_, _, _)
FtsInsertAll(fts, pages, ids) ==
    IF ids = {} THEN fts
    ELSE LET id == CHOOSE x \in ids : TRUE
         IN FtsInsertAll(
                FtsInsert(fts, FtsRow(id, pages[id].document_id, Val(pages[id].ocr_text))),
                pages, ids \ {id})

\* a faulty SELECT that does not look at the status of the document
RebuildSelection_AnyDocument(docs, pages) ==
    {id \in 1..Len(pages) : IsActive(pages[id]) /\ HasOcrTextSql(pages[id])}

\* the SELECT of Models.rebuildFTSIndex
RebuildSelection(docs, pages) ==
    {id \in 1..Len(pages) :
        /\ IsActive(pages[id])
        /\ docs[pages[id].document_id].status = ACTIVE
        /\ HasOcrTextSql(pages[id])}

\* a faulty clearing that leaves the table as it is
FtsDeleteAll_Nothing(fts) == fts

\* DELETE FROM document_fts
FtsDeleteAll(fts) == EmptyFts

\* Models.rebuildFTSIndex: DELETE FROM document_fts, then one INSERT per
\* selected page; returns processedCount
rebuildFTSIndex(fts, docs, pages) ==
    [fts   |-> FtsInsertAll(FtsDeleteAll(fts), pages, RebuildSelection(docs, pages)),
     count |-> Cardinality(RebuildSelection(docs, pages))]


(* ------------------------------- Init ---------------------------------- *)
IdleUpload ==
    [pc                 |-> "idle",
     documentId         |-> 0,
     isPdf              |-> FALSE,
     isImage            |-> FALSE,
     performOCR         |-> FALSE,
     startingPageNumber |-> 0,
     k                  |-> 0,     \* conversionResults.length
     i                  |-> 0,     \* loop index of processPDFPages
     pageRecords        |-> <<>>,
     rasterFailed       |-> FALSE, \* convert.bulk threw
     ocrThrew           |-> {},    \* loop indexes whose performOCR threw
     thumbFailed        |-> FALSE, \* some createThumbnail returned false
     thumbMissing       |-> {},    \* loop indexes whose createThumbnail returned false
     ocrPending         |-> FALSE, \* a performOCR is awaited
     engine             |-> Null,  \* what the OCR engine did in the last performOCR
     res                |-> Null]  \* the HTTP response, once sent

NoFiles == [source |-> FALSE, raster |-> 0]

IdleOcrJob ==
    [pc             |-> "idle",
     documentId     |-> 0,
     forceReprocess |-> FALSE, \* force_reprocess of the request body
     pending        |-> <<>>,  \* rows of findPagesNeedingOCR not yet visited
     selected       |-> 0,     \* pages.length
     processedCount |-> 0,
     totalWords     |-> 0,
     errors         |-> <<>>,  \* page_number of each errors.push
     res            |-> Null]

\* before is the document_pages table as the request found it
IdleReorder ==
    [pc         |-> "idle",
     documentId |-> 0,
     page_order |-> <<>>,
     before     |-> <<>>,
     res        |-> Null]

\* no Models method has been called directly; prev is the count the call
\* before returned when that call was a rebuild as well
NoCall ==
    [op |-> "none", pageId |-> 0, ocrText |-> Null, before |-> EmptyFts,
     result |-> 0, prev |-> Null,
     userId |-> 0, projectId |-> Null, query |-> <<>>, rows |-> <<>>,
     response |-> Null]

Init ==
    /\ documents = [d \in Docs |-> [status |-> ACTIVE, total_pages |-> 0,
                                    has_ocr_text |-> FALSE]]
    /\ projects = [p \in Projects |-> [status |-> ACTIVE]]
    /\ project_roles = {}
    /\ user_project_access = {}
    /\ call = NoCall
    /\ document_pages = <<>>
    /\ document_fts = EmptyFts
    /\ files = [u \in Uploads |-> NoFiles]
    /\ uploads = [u \in Uploads |-> IdleUpload]
    /\ ocrJob = IdleOcrJob
    /\ reorderReq = IdleReorder

(* ------------------ POST /:documentId/pages (upload) ------------------- *)
InFlight(u) == uploads[u].pc \notin {"idle", "done"}

\* rows an upload in flight may still insert
Reserved(u) ==
    CASE uploads[u].pc \in {"mkdir", "rasterize"} -> 1
      [] uploads[u].pc = "page" -> uploads[u].k - uploads[u].i
      [] OTHER -> 0

RECURSIVE ReservedSum(_)
ReservedSum(S) ==
    IF S = {} THEN 0
    ELSE LET u == CHOOSE x \in S : TRUE IN Reserved(u) + ReservedSum(S \ {u})

Room == MaxPages - Len(document_pages) - ReservedSum(Uploads)

\* multer fileFilter: the mimetype must be one of the allowed types
\* ("image" stands for JPEG, PNG and TIFF, "bmp" for the types of FILE_TYPES
\* that validateImageFile does not list, "other" for any type not allowed)
FileTypes == {"pdf", "image", "bmp", "other"}
fileFilter(type) == type \in {"pdf", "image", "bmp"}

\* PDFService.validatePDFFile
validatePDFFile(type) == type = "pdf"

\* ImageService.validateImageFile
validateImageFile(type) == type = "image"

\* a faulty error path that answers as if the upload had gone through
FailureResponse_Masked == Some([status |-> HTTP_OK, success |-> TRUE])

\* the catch block of the route: 500 'File processing failed'
FailureResponse == Some([status |-> HTTP_INTERNAL_SERVER_ERROR, success |-> FALSE])

\* a faulty aggregate that wants OCR text on every page
HasOCRText_Every(pageRecords) ==
    \A j \in 1..Len(pageRecords) :
        Truthy(pageRecords[j].ocr_text) /\ Len(Val(pageRecords[j].ocr_text)) > 0

\* pageRecords.some(page => page.ocr_text && page.ocr_text.length > 0)
HasOCRText(pageRecords) ==
    \E j \in 1..Len(pageRecords) :
        Truthy(pageRecords[j].ocr_text) /\ Len(Val(pageRecords[j].ocr_text)) > 0

\* pageRecords.reduce((sum, page) => sum + (page.word_count || 0), 0)
TotalWords(pageRecords) ==
    SumSeq([j \in 1..Len(pageRecords) |-> pageRecords[j].word_count])

\* res.json({success: true, pages, total_pages, ocr_processed, ...})
SuccessResponse(pageRecords, performOCRProcessing) ==
    Some([status          |-> HTTP_OK,
          success         |-> TRUE,
          pages           |-> pageRecords,
          total_pages     |-> Len(pageRecords),
          ocr_processed   |-> performOCRProcessing,
          ocr_words_found |-> TotalWords(pageRecords),
          has_ocr_text    |-> HasOCRText(pageRecords)])

\* the route after the service returned: incrementPageCount, then
\* updateOCRStatus(documentId, true) when some record has OCR text
AggregateDocument(docs, documentId, pageRecords) ==
    LET counted == incrementPageCount(docs, documentId, Len(pageRecords))
    IN  IF HasOCRText(pageRecords)
        THEN updateOCRStatus(counted, documentId, TRUE)
        ELSE counted

\* the entry pushed on pageRecords for a created page
PageRecord(pageId, pageNumber, ocrData) ==
    [id             |-> pageId,
     page_number    |-> pageNumber,
     ocr_text       |-> IngestOcrText(ocrData),
     ocr_confidence |-> IngestOcrConfidence(ocrData),
     word_count     |-> IngestWordCount(ocrData)]

\* The request arrives: multer stores the file, the route validates it and
\* looks the document up, then awaits FileService.createDirectories.
StartUpload(u, documentId, type, performOCRProcessing) ==
    /\ uploads[u].pc = "idle"
    /\ Room >= 1
    /\ IF ~fileFilter(type)
       THEN /\ uploads' = [uploads EXCEPT ![u] =
                   [IdleUpload EXCEPT !.pc = "done", !.documentId = documentId,
                        !.res = Some([status |-> HTTP_BAD_REQUEST, success |-> FALSE])]]
            /\ files' = [files EXCEPT ![u] = NoFiles]
       ELSE IF ~DocumentIsActive(documents, documentId)
       THEN /\ uploads' = [uploads EXCEPT ![u] =
                   [IdleUpload EXCEPT !.pc = "done", !.documentId = documentId,
                        !.isPdf = validatePDFFile(type),
                        !.isImage = validateImageFile(type),
                        !.performOCR = performOCRProcessing,
                        !.res = Some([status |-> HTTP_NOT_FOUND, success |-> FALSE])]]
            /\ files' = [files EXCEPT ![u] = [source |-> TRUE, raster |-> 0]]
       ELSE /\ uploads' = [uploads EXCEPT ![u] =
                   [IdleUpload EXCEPT !.pc = "mkdir", !.documentId = documentId,
                        !.isPdf = validatePDFFile(type),
                        !.isImage = validateImageFile(type),
                        !.performOCR = performOCRProcessing]]
            /\ files' = [files EXCEPT ![u] = [source |-> TRUE, raster |-> 0]]
    /\ UNCHANGED <<documents, document_pages, document_fts, ocrJob, reorderReq, tables, call>>

\* createDirectories resolved; the service reads the next page number and
\* awaits the renderer (PDF) or the rename of the uploaded file (image).
AllocatePageNumber(u) ==
    /\ uploads[u].pc = "mkdir"
    /\ IF ~uploads[u].isPdf /\ ~uploads[u].isImage
       THEN \* neither validator accepts the file: 'Unsupported file type'
            uploads' = [uploads EXCEPT ![u].pc = "done",
                           ![u].res = Some([status |-> HTTP_BAD_REQUEST,
                                            success |-> FALSE])]
       ELSE LET n == getNextPageNumber(document_pages, uploads[u].documentId)
            IN  uploads' = [uploads EXCEPT ![u].startingPageNumber = n,
                               ![u].pc = IF uploads[u].isPdf THEN "rasterize" ELSE "page",
                               ![u].k = IF uploads[u].isPdf THEN 0 ELSE 1]
    /\ UNCHANGED <<documents, document_pages, document_fts, files, ocrJob, reorderReq, tables, call>>

\* convert.bulk(-1) resolved with count page images
RasterizeOk(u, count) ==
    /\ uploads[u].pc = "rasterize"
    /\ count \in 1..MaxBatch
    /\ count <= Room + 1
    /\ uploads' = [uploads EXCEPT ![u].pc = "page", ![u].k = count, ![u].i = 0]
    /\ files' = [files EXCEPT ![u].raster = count]
    /\ UNCHANGED <<documents, document_pages, document_fts, ocrJob, reorderReq, tables, call>>

\* convert.bulk(-1) rejected (corrupt PDF): processPDFPages rethrows and the
\* route answers 500; leftover is what the renderer had already written
RasterizeFail(u, leftover) ==
    /\ uploads[u].pc = "rasterize"
    /\ leftover \in 0..(MaxBatch - 1)
    /\ uploads' = [uploads EXCEPT ![u].pc = "done", ![u].rasterFailed = TRUE,
                       ![u].res = FailureResponse]
    /\ files' = [files EXCEPT ![u].raster = leftover]
    /\ UNCHANGED <<documents, document_pages, document_fts, ocrJob, reorderReq, tables, call>>


\* a faulty numbering that leaves a gap after every page
PageNumberOf_Gapped(startingPageNumber, i) == startingPageNumber + 2 * i

\* const pageNumber = startingPageNumber + i
PageNumberOf(startingPageNumber, i) == startingPageNumber + i

\* try { ocrData = await performOCR(..) } catch { log }: a throw leaves
\* ocrData null; without the OCR option the engine is not called
OcrDataOf(performOCRProcessing, outcome) ==
    IF performOCRProcessing THEN outcome ELSE Null

\* if (ocrData && ocrData.text) models.updateFTSIndex(pageId, ...)
IngestIndex(fts, pageId, documentId, ocrData) ==
    IF ~IsNull(ocrData) /\ Truthy(Some(Val(ocrData).text))
    THEN updateFTSIndex(fts, pageId, documentId, Some(Val(ocrData).text))
    ELSE fts

IoOutcomes == {"ok", "rename", "stat"}

\* One iteration of the loop of processPDFPages: rename, thumbnail, stat
\* and OCR are awaited, then the row is inserted and indexed.
ProcessPdfPage(u, io, thumbOk, outcome) ==
    LET up         == uploads[u]
        pageNumber == PageNumberOf(up.startingPageNumber, up.i)
        ocrData    == OcrDataOf(up.performOCR, outcome)
        pageId     == Len(document_pages) + 1
        threw      == up.performOCR /\ IsNull(outcome)
    IN
    /\ up.pc = "page" /\ up.isPdf
    /\ io \in IoOutcomes
    /\ up.performOCR \/ IsNull(outcome)
    /\ CASE io = "rename" ->
              \* fs.rename threw: the catch block rethrows, the route answers 500
              /\ uploads' = [uploads EXCEPT ![u].pc = "done", ![u].res = FailureResponse]
              /\ UNCHANGED <<files, document_pages, document_fts>>
         [] io = "stat" ->
              \* fs.stat threw after the rename (and the thumbnail attempt)
              /\ uploads' = [uploads EXCEPT ![u].pc = "done", ![u].res = FailureResponse]
              /\ files' = [files EXCEPT ![u].raster = @ - 1]
              /\ UNCHANGED <<document_pages, document_fts>>
         [] io = "ok" ->
              /\ document_pages' =
                     createPage(document_pages, PageData(up.documentId, pageNumber, ocrData))
              /\ document_fts' = IngestIndex(document_fts, pageId, up.documentId, ocrData)
              /\ files' = [files EXCEPT ![u].raster = @ - 1]
              /\ uploads' = [uploads EXCEPT
                     ![u].pageRecords = Append(@, PageRecord(pageId, pageNumber, ocrData)),
                     ![u].ocrThrew = IF threw THEN @ \cup {up.i} ELSE @,
                     ![u].thumbFailed = @ \/ ~thumbOk,
                     ![u].thumbMissing = IF thumbOk THEN @ ELSE @ \cup {up.i},
                     ![u].ocrPending = FALSE,
                     ![u].i = @ + 1,
                     ![u].pc = IF up.i + 1 = up.k THEN "unlink" ELSE "page"]
    /\ UNCHANGED <<documents, ocrJob, reorderReq, tables, call>>

\* fs.unlink(file.path) resolved: processPDFPages returns pageRecords and the
\* route updates the document and answers; or it threw and the route
\* answers 500
FinishPdf(u, unlinkOk) ==
    LET up == uploads[u] IN
    /\ up.pc = "unlink"
    /\ IF unlinkOk
       THEN /\ files' = [files EXCEPT ![u].source = FALSE]
            /\ documents' = AggregateDocument(documents, up.documentId, up.pageRecords)
            /\ uploads' = [uploads EXCEPT ![u].pc = "done",
                               ![u].res = SuccessResponse(up.pageRecords, up.performOCR)]
       ELSE /\ uploads' = [uploads EXCEPT ![u].pc = "done", ![u].res = FailureResponse]
            /\ UNCHANGED <<files, documents>>
    /\ UNCHANGED <<document_pages, document_fts, ocrJob, reorderReq, tables, call>>

\* processSingleImage after the page number was read: rename, thumbnail and
\* OCR are awaited, the row is inserted and indexed, and the route updates
\* the document and answers, with no await in between
ProcessImage(u, renameOk, thumbOk, outcome) ==
    LET up         == uploads[u]
        pageNumber == up.startingPageNumber
        ocrData    == OcrDataOf(up.performOCR, outcome)
        pageId     == Len(document_pages) + 1
        threw      == up.performOCR /\ IsNull(outcome)
        records    == <<PageRecord(pageId, pageNumber, ocrData)>>
    IN
    /\ up.pc = "page" /\ ~up.isPdf
    /\ up.performOCR \/ IsNull(outcome)
    /\ IF ~renameOk
       THEN /\ uploads' = [uploads EXCEPT ![u].pc = "done", ![u].res = FailureResponse]
            /\ UNCHANGED <<files, documents, document_pages, document_fts>>
       ELSE /\ files' = [files EXCEPT ![u].source = FALSE]
            /\ document_pages' =
                   createPage(document_pages, PageData(up.documentId, pageNumber, ocrData))
            /\ document_fts' = IngestIndex(document_fts, pageId, up.documentId, ocrData)
            /\ documents' = AggregateDocument(documents, up.documentId, records)
            /\ uploads' = [uploads EXCEPT
                   ![u].pageRecords = records,
                   ![u].ocrThrew = IF threw THEN {0} ELSE {},
                   ![u].thumbFailed = ~thumbOk,
                   ![u].thumbMissing = IF thumbOk THEN {} ELSE {0},
                   ![u].ocrPending = FALSE,
                   ![u].i = 1,
                   ![u].pc = "done",
                   ![u].res = SuccessResponse(records, up.performOCR)]
    /\ UNCHANGED <<ocrJob, reorderReq, tables, call>>


\* The response was delivered: the request and its file handles are gone.
CloseUpload(u) ==
    /\ uploads[u].pc = "done"
    /\ uploads' = [uploads EXCEPT ![u] = IdleUpload]
    /\ files' = [files EXCEPT ![u] = NoFiles]
    /\ UNCHANGED <<documents, document_pages, document_fts, ocrJob, reorderReq, tables, call>>

(* ------------------ POST /:documentId/ocr (batch re-OCR) --------------- *)
\* a selection that takes every page in either mode
NeedsOCR_Always(row, forceReprocess) == TRUE

\* the condition of findPagesNeedingOCR: (ocr_text IS NULL OR ocr_text = ''),
\* or 1=1 under forceReprocess
NeedsOCR(row, forceReprocess) ==
    forceReprocess \/ IsNull(row.ocr_text) \/ Val(row.ocr_text) = <<>>

RECURSIVE OrderByPageNumber(_, _)
OrderByPageNumber(pages, ids) ==
    IF ids = {} THEN <<>>
    ELSE LET first == CHOOSE x \in ids : \A y \in ids :
                          \/ pages[x].page_number < pages[y].page_number
                          \/ pages[x].page_number = pages[y].page_number /\ x <= y
         IN <<[id |-> first, page_number |-> pages[first].page_number]>>
                \o OrderByPageNumber(pages, ids \ {first})

\* DocumentPage.findPagesNeedingOCR: active pages of the document that need
\* OCR, ORDER BY page_number
findPagesNeedingOCR(pages, documentId, forceReprocess) ==
    OrderByPageNumber(pages,
        {id \in ActivePagesOf(pages, documentId) : NeedsOCR(pages[id], forceReprocess)})

\* The request arrives: the document is looked up and the pages are selected.
StartBatchOcr(documentId, forceReprocess) ==
    LET pages == findPagesNeedingOCR(document_pages, documentId, forceReprocess) IN
    /\ ocrJob.pc = "idle"
    /\ IF IsNull(findByIdWithDetails(documents, documentId))
       THEN ocrJob' = [IdleOcrJob EXCEPT !.pc = "done", !.documentId = documentId,
                          !.res = Some([status |-> HTTP_NOT_FOUND, success |-> FALSE])]
       ELSE IF Len(pages) = 0
       THEN ocrJob' = [IdleOcrJob EXCEPT !.pc = "done", !.documentId = documentId,
                          !.res = Some([status |-> HTTP_OK, success |-> TRUE,
                                        processed_pages |-> 0])]
       ELSE ocrJob' = [IdleOcrJob EXCEPT !.pc = "run", !.documentId = documentId,
                          !.forceReprocess = forceReprocess,
                          !.pending = pages, !.selected = Len(pages)]
    /\ UNCHANGED <<documents, document_pages, document_fts, files, uploads, reorderReq, tables, call>>

\* a response that never carries the list of errors
BatchOcrResponse_NoErrors(job) ==
    Some([status          |-> HTTP_OK,
          success         |-> TRUE,
          processed_pages |-> job.processedCount,
          total_pages     |-> job.selected,
          total_words     |-> job.totalWords,
          errors          |-> Null])

\* the response after the loop; errors: errors.length > 0 ? errors : undefined
BatchOcrResponse(job) ==
    Some([status          |-> HTTP_OK,
          success         |-> TRUE,
          processed_pages |-> job.processedCount,
          total_pages     |-> job.selected,
          total_words     |-> job.totalWords,
          errors          |-> IF job.errors = <<>> THEN Null ELSE Some(job.errors)])

\* One iteration of the loop: fileExists and performOCR are awaited, then the
\* row and the index are updated.  After the last page the document's OCR
\* status is set when processedCount > 0 and the response is sent.
BatchOcrPage(fileExists, outcome) ==
    LET page   == Head(ocrJob.pending)
        ok     == fileExists /\ ~IsNull(outcome)
        ocr    == Val(outcome)
        rest   == Tail(ocrJob.pending)
        job    == [ocrJob EXCEPT
                      !.pending = rest,
                      !.processedCount = IF ok THEN @ + 1 ELSE @,
                      !.totalWords = IF ok THEN @ + ocr.wordCount ELSE @,
                      !.errors = IF ok THEN @ ELSE Append(@, page.page_number)]
    IN
    /\ ocrJob.pc = "run"
    /\ fileExists \/ IsNull(outcome)
    /\ IF ok
       THEN /\ document_pages' = updateOCRData(document_pages, page.id, ocr.text,
                                               ocr.confidence, ocr.wordCount)
            /\ document_fts' = updateFTSIndex(document_fts, page.id,
                                              ocrJob.documentId, Some(ocr.text))
       ELSE UNCHANGED <<document_pages, document_fts>>
    /\ IF rest = <<>>
       THEN /\ documents' = IF job.processedCount > 0
                            THEN updateOCRStatus(documents, ocrJob.documentId, TRUE)
                            ELSE documents
            /\ ocrJob' = [job EXCEPT !.pc = "done", !.res = BatchOcrResponse(job)]
       ELSE /\ ocrJob' = job
            /\ UNCHANGED documents
    /\ UNCHANGED <<files, uploads, reorderReq, tables, call>>

\* The response was delivered.
CloseBatchOcr ==
    /\ ocrJob.pc = "done"
    /\ ocrJob' = IdleOcrJob
    /\ UNCHANGED <<documents, document_pages, document_fts, files, uploads, reorderReq, tables, call>>

(* ----------------------- deletes, reorder, rebuild --------------------- *)
\* DocumentPage.softDeletePage: one transaction
softDeletePage(pages, pageId) == [pages EXCEPT ![pageId].status = INACTIVE]

SoftDeletePage(pageId) ==
    LET documentId == document_pages[pageId].document_id
        after      == softDeletePage(document_pages, pageId)
        remaining  == Cardinality(ActivePagesOf(after, documentId))
    IN
    /\ pageId \in PageIds
    /\ document_pages' = after
    /\ document_fts' = FtsDeletePage(document_fts, pageId)
    /\ documents' = [documents EXCEPT ![documentId].total_pages = remaining]
    /\ UNCHANGED <<files, uploads, ocrJob, reorderReq, tables, call>>

\* DELETE /:id -> Document.softDeleteWithPages: one transaction
SoftDeleteDocument(documentId) ==
    /\ ~IsNull(findByIdWithDetails(documents, documentId))
    /\ documents' = [documents EXCEPT ![documentId].status = INACTIVE]
    /\ document_pages' = [id \in PageIds |->
           IF document_pages[id].document_id = documentId
           THEN [document_pages[id] EXCEPT !.status = INACTIVE]
           ELSE document_pages[id]]
    /\ document_fts' = FtsDeleteDocument(document_fts, documentId)
    /\ UNCHANGED <<files, uploads, ocrJob, reorderReq, tables, call>>

\* a faulty update that matches the page by id alone
ReorderOne_AnyDocument(pages, documentId, pageUpdate) ==
    IF pageUpdate.page_id \in 1..Len(pages)
    THEN [pages EXCEPT ![pageUpdate.page_id].page_number = pageUpdate.new_page_number,
                       ![pageUpdate.page_id].page_order = pageUpdate.new_page_number]
    ELSE pages

\* UPDATE document_pages SET page_number = ?, page_order = ?
\* WHERE id = ? AND document_id = ?
ReorderOne(pages, documentId, pageUpdate) ==
    IF /\ pageUpdate.page_id \in 1..Len(pages)
       /\ pages[pageUpdate.page_id].document_id = documentId
    THEN [pages EXCEPT ![pageUpdate.page_id].page_number = pageUpdate.new_page_number,
                       ![pageUpdate.page_id].page_order = pageUpdate.new_page_number]
    ELSE pages

RECURSIVE reorderPages(_, _, _)
\* DocumentPage.reorderPages: the updates run in the order of the payload
reorderPages(pages, documentId, pageOrders) ==
    IF pageOrders = <<>> THEN pages
    ELSE reorderPages(ReorderOne(pages, documentId, Head(pageOrders)),
                      documentId, Tail(pageOrders))

PageUpdates == [page_id : 1..MaxPages, new_page_number : 1..MaxPages]

\* the page_order payloads tried: one or two pairs
PageOrderPayloads ==
    {<<a>> : a \in PageUpdates}
        \cup {<<p[1], p[2]>> : p \in {q \in PageUpdates \X PageUpdates :
                                            q[1].page_id < q[2].page_id}}

RECURSIVE updatedCount(_, _, _)
\* the pairs whose UPDATE changed a row (result.changes > 0)
updatedCount(pages, documentId, pageOrders) ==
    IF pageOrders = <<>> THEN 0
    ELSE LET pageUpdate == Head(pageOrders)
             hit == /\ pageUpdate.page_id \in 1..Len(pages)
                    /\ pages[pageUpdate.page_id].document_id = documentId
         IN (IF hit THEN 1 ELSE 0)
                + updatedCount(ReorderOne(pages, documentId, pageUpdate),
                               documentId, Tail(pageOrders))

\* PUT /:documentId/pages/reorder: no await, the handler is one step
ReorderPages(documentId, pageOrders) ==
    LET answered(res) == [IdleReorder EXCEPT !.pc = "done", !.documentId = documentId,
                              !.page_order = pageOrders, !.before = document_pages,
                              !.res = Some(res)]
    IN
    /\ reorderReq.pc = "idle"
    /\ IF Len(pageOrders) = 0
       THEN /\ reorderReq' = answered([status |-> HTTP_BAD_REQUEST, success |-> FALSE])
            /\ UNCHANGED document_pages
       ELSE IF IsNull(findByIdWithDetails(documents, documentId))
       THEN /\ reorderReq' = answered([status |-> HTTP_NOT_FOUND, success |-> FALSE])
            /\ UNCHANGED document_pages
       ELSE /\ document_pages' = reorderPages(document_pages, documentId, pageOrders)
            /\ reorderReq' = answered(
                   [status |-> HTTP_OK, success |-> TRUE,
                    updated_pages |-> updatedCount(document_pages, documentId, pageOrders)])
    /\ UNCHANGED <<documents, document_fts, files, uploads, ocrJob, tables, call>>

\* The response was delivered.
CloseReorder ==
    /\ reorderReq.pc = "done"
    /\ reorderReq' = IdleReorder
    /\ UNCHANGED <<documents, document_pages, document_fts, files, uploads, ocrJob, tables, call>>

\* Models.rebuildFTSIndex
RebuildFTSIndex ==
    /\ document_fts' = rebuildFTSIndex(document_fts, documents, document_pages).fts
    /\ UNCHANGED <<documents, document_pages, files, uploads, ocrJob, reorderReq, tables, call>>

(* --------------------------- specifications ---------------------------- *)
\* no request is between two of its awaits
Quiet ==
    /\ \A u \in Uploads : uploads[u].pc = "idle"
    /\ ocrJob.pc = "idle"
    /\ reorderReq.pc = "idle"

UploadStep(u) ==
    \/ AllocatePageNumber(u)
    \/ \E count \in 1..MaxBatch : RasterizeOk(u, count)
    \/ \E leftover \in 0..(MaxBatch - 1) : RasterizeFail(u, leftover)
    \/ \E io \in IoOutcomes, thumbOk \in BOOLEAN, outcome \in OcrOutcomes :
           ProcessPdfPage(u, io, thumbOk, outcome)
    \/ \E unlinkOk \in BOOLEAN : FinishPdf(u, unlinkOk)
    \/ \E renameOk \in BOOLEAN, thumbOk \in BOOLEAN, outcome \in OcrOutcomes :
           ProcessImage(u, renameOk, thumbOk, outcome)
    \/ CloseUpload(u)

OcrStep ==
    \/ \E fileExists \in BOOLEAN, outcome \in OcrOutcomes :
           BatchOcrPage(fileExists, outcome)
    \/ CloseBatchOcr

\* Ingestion and deletion, with requests served one after the other: a
\* request starts only when no other request is in flight.
Next ==
    \/ Quiet /\ \E d \in Docs, type \in FileTypes, ocr \in BOOLEAN :
                    StartUpload(1, d, type, ocr)
    \/ UploadStep(1)
    \/ Quiet /\ \E p \in PageIds : SoftDeletePage(p)
    \/ Quiet /\ \E d \in Docs : SoftDeleteDocument(d)
    \/ Quiet /\ RebuildFTSIndex

Spec == Init /\ [][Next]_vars

ImageUploadStep(u) ==
    \/ AllocatePageNumber(u)
    \/ \E renameOk \in BOOLEAN, thumbOk \in BOOLEAN, outcome \in OcrOutcomes :
           ProcessImage(u, renameOk, thumbOk, outcome)
    \/ CloseUpload(u)

\* Maintenance of documents whose pages arrive as single images: batch
\* re-OCR, deletes, reorders and rebuilds, again one request after the other.
NextMaintenance ==
    \/ /\ Quiet
       /\ Len(document_pages) < MaxMaintained
       /\ \E d \in Docs, type \in {"image", "other"}, ocr \in BOOLEAN :
              StartUpload(1, d, type, ocr)
    \/ ImageUploadStep(1)
    \/ Quiet /\ \E d \in Docs, force \in BOOLEAN : StartBatchOcr(d, force)
    \/ OcrStep
    \/ Quiet /\ \E p \in PageIds : SoftDeletePage(p)
    \/ Quiet /\ \E d \in Docs : SoftDeleteDocument(d)
    \/ Quiet /\ \E d \in Docs, po \in PageOrderPayloads \cup {<<>>} : ReorderPages(d, po)
    \/ CloseReorder
    \/ Quiet /\ RebuildFTSIndex

SpecMaintenance == Init /\ [][NextMaintenance]_vars

\* rows the racing uploads may still add
RacingRoom == MaxRacing - Len(document_pages) - ReservedSum(Uploads)

RacingUploadStep(u) ==
    \/ AllocatePageNumber(u)
    \/ \E count \in 1..MaxBatch : count <= RacingRoom + 1 /\ RasterizeOk(u, count)
    \/ \E leftover \in 0..(MaxBatch - 1) : RasterizeFail(u, leftover)
    \/ \E io \in IoOutcomes, thumbOk \in BOOLEAN, outcome \in OcrOutcomes :
           ProcessPdfPage(u, io, thumbOk, outcome)
    \/ \E unlinkOk \in BOOLEAN : FinishPdf(u, unlinkOk)
    \/ \E renameOk \in BOOLEAN, thumbOk \in BOOLEAN, outcome \in OcrOutcomes :
           ProcessImage(u, renameOk, thumbOk, outcome)
    \/ CloseUpload(u)

\* Uploads overlapping in time: each await of one request may be followed by
\* a step of the other.
NextConcurrent ==
    \E u \in Uploads :
        \/ /\ RacingRoom >= 1
           /\ \E d \in Docs, type \in FileTypes, ocr \in BOOLEAN :
                  StartUpload(u, d, type, ocr)
        \/ RacingUploadStep(u)

SpecConcurrent == Init /\ [][NextConcurrent]_vars

(* ------------- direct calls of the index methods of Models ------------- *)
\* the ocr_text values a stored page may hold
StoredTexts == {Null, Some(<<>>), Some(<<" ">>), Some(<<"a">>)}

\* the texts handed to updateFTSIndex
UpsertTexts == StoredTexts \cup {Some(<<"a", " ">>)}

\* a row of document_pages as ingestion, re-OCR and deletes may have left it
StoredPage(documentId, pageNumber, status, ocrText) ==
    [document_id    |-> documentId,
     page_number    |-> pageNumber,
     page_order     |-> pageNumber,
     thumbnail_path |-> Some("thumb"),
     ocr_text       |-> ocrText,
     ocr_confidence |-> IF Truthy(ocrText) THEN Some(85) ELSE Null,
     ocr_processed  |-> ~IsNull(ocrText),
     word_count     |-> IF Truthy(ocrText) /\ Trim(Val(ocrText)) # <<>> THEN 1 ELSE 0,
     status         |-> status]

\* the tables document_pages may be: up to MaxIndexed rows
StoredPageTables ==
    UNION {[1..n -> {StoredPage(d, 1, st, t) :
                        d \in Docs, st \in {ACTIVE, INACTIVE}, t \in StoredTexts}] :
           n \in 0..MaxIndexed}

\* the index rows that may exist for the pages: one per page at most, with
\* the text of the page or a text the page held before
StoredFtsRows(pages) ==
    {FtsRow(id, pages[id].document_id, t) :
        id \in 1..Len(pages), t \in {<<" ">>, <<"a">>}}

StoredIndexes(pages) ==
    {[r \in rows |-> 1] :
        rows \in {R \in SUBSET StoredFtsRows(pages) :
                     \A r1, r2 \in R : r1.page_id = r2.page_id => r1 = r2}}

\* any stored state: the tables as earlier requests may have left them
InitIndex ==
    /\ documents \in [Docs -> {[status |-> st, total_pages |-> 0, has_ocr_text |-> FALSE] :
                                  st \in {ACTIVE, INACTIVE}}]
    /\ document_pages \in StoredPageTables
    /\ document_fts \in StoredIndexes(document_pages)
    /\ files = [u \in Uploads |-> NoFiles]
    /\ uploads = [u \in Uploads |-> IdleUpload]
    /\ ocrJob = IdleOcrJob
    /\ reorderReq = IdleReorder
    /\ projects = [p \in Projects |-> [status |-> ACTIVE]]
    /\ project_roles = {}
    /\ user_project_access = {}
    /\ call = NoCall

\* models.updateFTSIndex(pageId, documentId, projectId, documentTitle, ocrText)
UpdateFTSIndexCall(pageId, ocrText) ==
    /\ pageId \in PageIds
    /\ document_fts' = updateFTSIndex(document_fts, pageId,
                                      document_pages[pageId].document_id, ocrText)
    /\ call' = [NoCall EXCEPT !.op = "updateFTSIndex", !.pageId = pageId,
                    !.ocrText = ocrText, !.before = document_fts]
    /\ UNCHANGED <<documents, document_pages, files, uploads, ocrJob, reorderReq, tables>>

\* models.DocumentPage.updateOCRData(pageId, text, confidence, wordCount)
UpdateOCRDataCall(pageId, ocr) ==
    /\ pageId \in PageIds
    /\ document_pages' = updateOCRData(document_pages, pageId, ocr.text,
                                       ocr.confidence, ocr.wordCount)
    /\ call' = [NoCall EXCEPT !.op = "updateOCRData", !.pageId = pageId,
                    !.ocrText = Some(ocr.text), !.before = document_fts]
    /\ UNCHANGED <<documents, document_fts, files, uploads, ocrJob, reorderReq, tables>>

\* models.rebuildFTSIndex()
RebuildFTSIndexCall ==
    LET rebuilt == rebuildFTSIndex(document_fts, documents, document_pages) IN
    /\ document_fts' = rebuilt.fts
    /\ call' = [NoCall EXCEPT !.op = "rebuildFTSIndex", !.before = document_fts,
                    !.result = rebuilt.count,
                    !.prev = IF call.op = "rebuildFTSIndex"
                             THEN Some(call.result) ELSE Null]
    /\ UNCHANGED <<documents, document_pages, files, uploads, ocrJob, reorderReq, tables>>

\* The index methods called one after the other on any stored state.
NextIndex ==
    \/ \E p \in PageIds, t \in UpsertTexts : UpdateFTSIndexCall(p, t)
    \/ \E p \in PageIds, ocr \in OcrResults : UpdateOCRDataCall(p, ocr)
    \/ RebuildFTSIndexCall

SpecIndex == InitIndex /\ [][NextIndex]_vars

(* -------------------------------- search ------------------------------- *)
RECURSIVE Tokens(_)
\* the words of a text: its maximal runs of non-whitespace characters
Tokens(text) ==
    LET t == TrimLeft(text) IN
    IF t = <<>> THEN {}
    ELSE LET n == CHOOSE k \in 1..Len(t) :
                      /\ \A j \in 1..k : t[j] \notin Whitespace
                      /\ k = Len(t) \/ t[k + 1] \in Whitespace
         IN {SubSeq(t, 1, n)} \cup Tokens(SubSeq(t, n + 1, Len(t)))

\* document_fts MATCH ?: every word of the query is a word of the row
Match(query, text) == Tokens(query) # {} /\ Tokens(query) \subseteq Tokens(text)

\* a faulty access clause that lets every project through
AccessibleProjects_All(userId) == Projects

\* the access clause of searchDocuments: projects of the caller's role
\* (project_roles JOIN users) or granted to the caller (user_project_access)
AccessibleProjects(userId) ==
    {p \in Projects : <<p, RoleOf(userId)>> \in project_roles}
        \cup {p \in Projects : <<userId, p>> \in user_project_access}

\* one row of a search result
SearchRow(pageId, documentId) ==
    [page_id |-> pageId, document_id |-> documentId, project_id |-> ProjectOf(documentId)]

\* Models.searchDocuments(query, projectId, userId, userPermissions)
searchDocuments(query, projectId, userId, userPermissions) ==
    LET rows == {r \in DOMAIN document_fts :
                    /\ Match(query, r.page_text)
                    /\ r.page_id \in PageIds
                    /\ documents[r.document_id].status = ACTIVE
                    /\ IsActive(document_pages[r.page_id])
                    /\ projects[ProjectOf(r.document_id)].status = ACTIVE
                    /\ ("admin_access" \notin userPermissions /\ userId # 0
                           => ProjectOf(r.document_id) \in AccessibleProjects(userId))
                    /\ (~IsNull(projectId) => ProjectOf(r.document_id) = Val(projectId))}
    IN  [results |-> {SearchRow(Some(r.page_id), r.document_id) : r \in rows},
         total   |-> FtsCopies(document_fts, rows)]

\* a grouping that leaves the entries in the order the Map holds them
SortByRelevance_None(entries) == entries

\* Array.prototype.sort((a, b) => b.total_relevance - a.total_relevance):
\* descending total, entries of equal total keep their order (stable sort)
SortByRelevance(entries) ==
    LET n        == Len(entries)
        place(k) == 1 + Cardinality({j \in 1..n :
                        \/ entries[j].total_relevance > entries[k].total_relevance
                        \/ /\ entries[j].total_relevance = entries[k].total_relevance
                           /\ j < k})
    IN  [p \in 1..n |-> entries[CHOOSE k \in 1..n : place(k) = p]]

\* the rows of the route grouped by document: documentMap gets an entry at
\* the first row of a document, every row adds a match and its relevance to
\* the entry of its document, and the entries are sorted by total relevance
GroupByDocument(searchResults) ==
    LET rowsOf(d) == SelectSeq(searchResults, LAMBDA r : r.document_id = d)
        entry(d)  ==
            [document_id     |-> d,
             project_id      |-> rowsOf(d)[1].project_id,
             matches         |-> [i \in 1..Len(rowsOf(d)) |->
                                     [page_id   |-> rowsOf(d)[i].page_id,
                                      relevance |-> rowsOf(d)[i].relevance]],
             total_relevance |-> SumSeq([i \in 1..Len(rowsOf(d)) |->
                                            rowsOf(d)[i].relevance])]
        first     == {i \in 1..Len(searchResults) :
                         \A j \in 1..(i - 1) :
                             searchResults[j].document_id # searchResults[i].document_id}
        inserted  == [k \in 1..Cardinality(first) |->
                         entry(searchResults[CHOOSE i \in first :
                                   Cardinality({j \in first : j < i}) = k - 1].document_id)]
    IN  SortByRelevance(inserted)

\* a guard that also turns away a query of exactly two characters
QueryTooShort_Inclusive(query) == Len(Trim(query)) <= 2

\* !query || query.trim().length < 2
QueryTooShort(query) == Len(Trim(query)) < 2

\* GET /api/search: ftsWorks says whether the FTS statement runs (it throws
\* when the FTS table is missing); for a caller without admin access building
\* the statement throws (accessibleProjects is out of scope there), so the
\* fallback on title always answers; rank gives the score FTS5 computes for
\* each indexed page (bm25: negative, the more negative the better the match)
SearchRoute(query, project_id, userId, ftsWorks, rank) ==
    LET searchQuery      == Trim(query)
        hasAdminAccess   == "admin_access" \in PermissionsOf(userId)
        projectIds       == {p \in Projects : <<p, RoleOf(userId)>> \in project_roles}
        checkProjectAccess(p) == hasAdminAccess \/ <<p, RoleOf(userId)>> \in project_roles
        inClause(p)      == IF ~IsNull(project_id) THEN p = Val(project_id)
                            ELSE hasAdminAccess \/ p \in projectIds
        row(p, d, rel)   == [page_id |-> p, document_id |-> d,
                             project_id |-> ProjectOf(d), relevance |-> rel]
        ftsRows          ==
            {x \in DOMAIN document_fts :
                /\ Match(searchQuery, x.page_text)
                /\ (~IsNull(project_id) => ProjectOf(x.document_id) = Val(project_id))
                /\ documents[x.document_id].status = ACTIVE}
        \* ORDER BY rank, rows of equal rank in the order of their ids
        ahead(x, y)      == \/ rank[x.page_id] < rank[y.page_id]
                            \/ /\ rank[x.page_id] = rank[y.page_id]
                               /\ x.page_id < y.page_id
        ftsResults       ==
            [k \in 1..Cardinality(ftsRows) |->
                LET x == CHOOSE x \in ftsRows :
                             Cardinality({y \in ftsRows : ahead(y, x)}) = k - 1
                IN  row(Some(x.page_id), x.document_id, rank[x.page_id])]
        \* documents.title, and title LIKE '%query%'
        TitleOf(d)       == <<"a", "b">>
        Like(text, q)    ==
            \E i \in 1..(Len(text) - Len(q) + 1) : SubSeq(text, i, i + Len(q) - 1) = q
        firstActivePage(d) ==
            LET act == ActivePagesOf(document_pages, d)
            IN  IF act = {} THEN Null ELSE Some(CHOOSE x \in act : \A y \in act : x <= y)
        basicDocs        ==
            {x \in Docs : /\ inClause(ProjectOf(x))
                          /\ documents[x].status = ACTIVE
                          /\ Like(TitleOf(x), searchQuery)}
        \* one row a document with relevance 1.0, here in the order of the ids
        \* (the statement orders by updatedAt, which is not modelled)
        basicResults     ==
            [k \in 1..Cardinality(basicDocs) |->
                LET d == CHOOSE d \in basicDocs :
                             Cardinality({y \in basicDocs : y < d}) = k - 1
                IN  row(firstActivePage(d), d, 1)]
        searchResults    == IF hasAdminAccess /\ ftsWorks THEN ftsResults ELSE basicResults
    IN  IF QueryTooShort(query)
        THEN [status |-> HTTP_BAD_REQUEST, results |-> <<>>, total |-> 0]
        ELSE IF ~hasAdminAccess /\ projectIds = {}
        THEN [status |-> HTTP_OK, results |-> <<>>, total |-> 0]
        ELSE IF ~IsNull(project_id) /\ ~checkProjectAccess(Val(project_id))
        THEN [status |-> HTTP_FORBIDDEN, results |-> <<>>, total |-> 0]
        ELSE [status  |-> HTTP_OK,
              results |-> GroupByDocument(searchResults),
              total   |-> Len(searchResults)]

\* the queries tried: one word of two characters that the pages hold, one
\* character, one character followed by a blank, and a word no page holds
Queries == {<<"a", "b">>, <<"a">>, <<"a", " ">>, <<"c", "d">>}

\* any stored state for a search: a page in each document, indexed or not,
\* with any status of page, document and project (a page or a document
\* deleted while a request on it was in flight keeps its index row); users
\* 2 and 3 share a role, and user 3 may hold direct grants as well
InitSearch ==
    /\ documents \in [Docs -> {[status |-> st, total_pages |-> 0, has_ocr_text |-> FALSE] :
                                  st \in {ACTIVE, INACTIVE}}]
    /\ document_pages \in {<<StoredPage(1, 1, s1, Some(<<"a", "b">>)),
                              StoredPage(2, 1, s2, Some(<<"a", "b">>))>> :
                                s1 \in {ACTIVE, INACTIVE}, s2 \in {ACTIVE, INACTIVE}}
    /\ document_fts \in {[r \in rows |-> 1] :
                            rows \in SUBSET {FtsRow(id, id, <<"a", "b">>) : id \in 1..2}}
    /\ files = [u \in Uploads |-> NoFiles]
    /\ uploads = [u \in Uploads |-> IdleUpload]
    /\ ocrJob = IdleOcrJob
    /\ reorderReq = IdleReorder
    /\ projects \in [Projects -> {[status |-> st] : st \in {ACTIVE, INACTIVE}}]
    /\ project_roles \in SUBSET (Projects \X {2})
    /\ user_project_access \in SUBSET ({3} \X Projects)
    /\ call = NoCall

\* models.searchDocuments(query, projectId, userId, permissions of the user)
SearchDocumentsCall(query, projectId, userId) ==
    /\ call.op = "none"
    /\ call' = [NoCall EXCEPT !.op = "searchDocuments", !.userId = userId,
                    !.projectId = projectId, !.query = query,
                    !.response = Some(searchDocuments(query, projectId, userId,
                                                      PermissionsOf(userId)))]
    /\ UNCHANGED <<documents, document_pages, document_fts, files, uploads, ocrJob,
                   reorderReq, tables>>

\* GET /api/search?q=..&project_id=..
SearchRouteCall(query, project_id, userId, ftsWorks, rank) ==
    /\ call.op = "none"
    /\ call' = [NoCall EXCEPT !.op = "search", !.userId = userId,
                    !.projectId = project_id, !.query = query,
                    !.response = Some(SearchRoute(query, project_id, userId, ftsWorks,
                                                  rank))]
    /\ UNCHANGED <<documents, document_pages, document_fts, files, uploads, ocrJob,
                   reorderReq, tables>>

\* The result of the search was delivered.
ReturnSearch ==
    /\ call.op \in {"searchDocuments", "search", "group"}
    /\ call' = NoCall
    /\ UNCHANGED <<documents, document_pages, document_fts, files, uploads, ocrJob,
                   reorderReq, tables>>

\* Searches by any caller on any stored state, one after the other.
NextSearch ==
    \/ \E query \in Queries, projectId \in {Null} \cup {Some(p) : p \in Projects},
          userId \in Users :
           \/ SearchDocumentsCall(query, projectId, userId)
           \/ \E ftsWorks \in BOOLEAN :
                  \E rank \in IF ftsWorks THEN [PageIds -> {-2, -1}]
                               ELSE {[p \in PageIds |-> -1]} :
                      SearchRouteCall(query, projectId, userId, ftsWorks, rank)
    \/ ReturnSearch

SpecSearch == InitSearch /\ [][NextSearch]_vars

(* ------------------- deletes while an upload is in flight -------------- *)
\* An upload and the deletes of pages and documents that arrive while it is
\* in flight: they are synchronous transactions and so run at any await of
\* the upload.
NextInterleaved ==
    \/ \E d \in Docs, type \in {"pdf", "image"}, ocr \in BOOLEAN :
           StartUpload(1, d, type, ocr)
    \/ UploadStep(1)
    \/ \E p \in PageIds :
           /\ InFlight(1)
           /\ p <= Len(document_pages)
           /\ document_pages[p].document_id = uploads[1].documentId
           /\ SoftDeletePage(p)
    \/ InFlight(1) /\ SoftDeleteDocument(uploads[1].documentId)

SpecInterleaved == Init /\ [][NextInterleaved]_vars

(* ------------------- uploads with the OCR call awaited ----------------- *)
\* what the OCR engine does with one page image: it answers, it fails, or
\* it gives no answer at all
EngineBehaviours ==
    {[kind |-> "answer", result |-> r] : r \in OcrResults}
        \cup {[kind |-> "error"], [kind |-> "silent"]}

\* a performOCR without its timeout: the promise stays pending for as long
\* as the engine is silent
performOCR_Unbounded(engine) ==
    [settled |-> engine.kind # "silent",
     value   |-> IF engine.kind = "answer" THEN Some(engine.result) ELSE Null]

\* OCRService.performOCR: the promise resolves with the engine's answer,
\* rejects with the engine's error, and rejects when OCR_TIMEOUT has passed
\* without an answer (value Null stands for a rejection)
performOCR(engine) ==
    [settled |-> TRUE,
     value   |-> IF engine.kind = "answer" THEN Some(engine.result) ELSE Null]

\* The iteration reached `await OCRService.performOCR(..)` (rename,
\* thumbnail and stat resolved): the engine is at work on the page.
CallPerformOCR(u, engine) ==
    /\ uploads[u].pc = "page"
    /\ uploads[u].performOCR
    /\ ~uploads[u].ocrPending
    /\ uploads' = [uploads EXCEPT ![u].ocrPending = TRUE, ![u].engine = Some(engine)]
    /\ UNCHANGED <<documents, document_pages, document_fts, files, ocrJob, reorderReq,
                   tables, call>>

\* The promise of performOCR settled and the iteration runs to its end.
ResumeAfterOcr(u, thumbOk) ==
    /\ uploads[u].ocrPending
    /\ performOCR(Val(uploads[u].engine)).settled
    /\ \/ ProcessPdfPage(u, "ok", thumbOk, performOCR(Val(uploads[u].engine)).value)
       \/ ProcessImage(u, TRUE, thumbOk, performOCR(Val(uploads[u].engine)).value)

\* the steps the server takes for an upload with OCR
TimedUploadStep(u) ==
    \/ AllocatePageNumber(u)
    \/ \E count \in 1..MaxBatch : RasterizeOk(u, count)
    \/ \E leftover \in 0..(MaxBatch - 1) : RasterizeFail(u, leftover)
    \/ /\ ~uploads[u].ocrPending
       /\ \/ \E io \in {"rename", "stat"} : ProcessPdfPage(u, io, TRUE, Null)
          \/ ProcessImage(u, FALSE, TRUE, Null)
    \/ \E engine \in EngineBehaviours : CallPerformOCR(u, engine)
    \/ \E thumbOk \in BOOLEAN : ResumeAfterOcr(u, thumbOk)
    \/ \E unlinkOk \in BOOLEAN : FinishPdf(u, unlinkOk)
    \/ CloseUpload(u)

\* Uploads with OCR, one after the other.
NextTimeout ==
    \/ Quiet /\ \E d \in Docs, type \in {"pdf", "image"} : StartUpload(1, d, type, TRUE)
    \/ TimedUploadStep(1)

\* the event loop runs every continuation whose promise has settled
SpecTimeout == Init /\ [][NextTimeout]_vars /\ WF_vars(TimedUploadStep(1))

(* ------------------------- grouping of the rows ------------------------ *)
\* what the FTS statement of the route can hand to the grouping: up to
\* MaxRows rows of different pages (pages 1, 2 of document 1 and 3, 4 of
\* document 2), each with its rank, in the order of ORDER BY rank
ftsResults ==
    LET Rows == {[page_id |-> Some(p), document_id |-> IF p <= 2 THEN 1 ELSE 2,
                  project_id |-> ProjectOf(IF p <= 2 THEN 1 ELSE 2), relevance |-> rel] :
                     p \in 1..4, rel \in {-3, -2, -1}}
    IN  {s \in UNION {[1..n -> Rows] : n \in 0..MaxRows} :
            /\ \A i, j \in DOMAIN s : i < j =>
                   /\ s[i].page_id # s[j].page_id
                   /\ s[i].relevance <= s[j].relevance}

\* the grouping block of GET /api/search applied to the rows of a statement
GroupCall(searchResults) ==
    /\ call.op = "none"
    /\ call' = [NoCall EXCEPT !.op = "group", !.rows = searchResults,
                    !.response = Some(GroupByDocument(searchResults))]
    /\ UNCHANGED <<documents, document_pages, document_fts, files, uploads, ocrJob,
                   reorderReq, tables>>

\* The grouping on every list of rows, one list after the other.
NextGrouping ==
    \/ \E searchResults \in ftsResults : GroupCall(searchResults)
    \/ ReturnSearch

SpecGrouping == Init /\ [][NextGrouping]_vars

(* ------------------------------- properties --------------------------- *)

OcrTextOf(row) == IF IsNull(row.ocr_text) THEN <<>> ELSE Val(row.ocr_text)

Indexed(pageId) == FtsEntriesOf(document_fts, pageId) > 0

\* C1: a page that is active and whose OCR text, trimmed, is not empty has
\* exactly one index entry, holding the page's current text; any other page
\* has no index entry.
C1_IndexEntryIffActiveText ==
    \A pageId \in PageIds :
        LET row == document_pages[pageId] IN
        IF IsActive(row) /\ Trim(OcrTextOf(row)) # <<>>
        THEN /\ FtsEntriesOf(document_fts, pageId) = 1
             /\ FtsRow(pageId, row.document_id, OcrTextOf(row)) \in DOMAIN document_fts
        ELSE ~Indexed(pageId)

Succeeded(u) ==
    /\ uploads[u].pc = "done"
    /\ Val(uploads[u].res).status = HTTP_OK

\* C2: when an upload into a document has just succeeded, the document's
\* total_pages equals the number of its active pages.
C2_TotalPagesAfterSuccessfulBatch ==
    \A u \in Uploads :
        Succeeded(u) =>
            Cardinality(ActivePagesOf(document_pages, uploads[u].documentId))
                = documents[uploads[u].documentId].total_pages

ChildPages(documentId) ==
    {id \in PageIds : document_pages[id].document_id = documentId}

\* C3: between requests, has_ocr_text of a document is true only if one of
\* its pages (of any status) has non-empty OCR text, and it is true whenever
\* one of its active pages has OCR text that is non-empty after trimming.
C3_HasOcrTextIffSomePageHasText ==
    Quiet =>
        \A d \in Docs :
            /\ documents[d].has_ocr_text =>
                   \E id \in ChildPages(d) : OcrTextOf(document_pages[id]) # <<>>
            /\ (\E id \in ActivePagesOf(document_pages, d) :
                       Trim(OcrTextOf(document_pages[id])) # <<>>)
                   => documents[d].has_ocr_text

\* the page_number column of the rows a request inserted, in insertion order
PersistedNumbers(u) ==
    [j \in 1..Len(uploads[u].pageRecords) |->
        document_pages[uploads[u].pageRecords[j].id].page_number]

LoopFinished(u) == uploads[u].pc = "unlink" \/ Succeeded(u)

\* C4: a PDF batch that read N from the allocator and was split into k pages
\* persists the page numbers N, N+1, ..., N+k-1, one row each: the j-th row
\* inserted so far holds N+j-1, and once the loop is over there are k rows.
C4_BatchPageNumbersContiguous ==
    \A u \in Uploads :
        uploads[u].isPdf /\ (uploads[u].pc = "page" \/ LoopFinished(u)) =>
            /\ \A j \in 1..Len(uploads[u].pageRecords) :
                   PersistedNumbers(u)[j] = uploads[u].startingPageNumber + j - 1
            /\ \A j1, j2 \in 1..Len(uploads[u].pageRecords) :
                   j1 # j2 => uploads[u].pageRecords[j1].id # uploads[u].pageRecords[j2].id
            /\ LoopFinished(u) => Len(uploads[u].pageRecords) = uploads[u].k

\* a 3-page PDF batch went through although the OCR of its middle page threw
\* and a thumbnail could not be made
C4_Witness ==
    \E u \in Uploads :
        /\ uploads[u].isPdf /\ Succeeded(u)
        /\ uploads[u].k = 3
        /\ 1 \in uploads[u].ocrThrew
        /\ uploads[u].thumbFailed
        /\ PersistedNumbers(u) = <<1, 2, 3>>

\* the request holds a number read from the allocator and has pages to insert
Allocated(u) == uploads[u].pc \in {"rasterize", "page"}

\* the page number the request will give to the next page it inserts
NextToIssue(u) == PageNumberOf(uploads[u].startingPageNumber, uploads[u].i)

\* C5 as stated: with uploads served one at a time, the number about to be
\* issued is greater than the page_number of every page row of the document,
\* so no row of the document holds it.
C5_IssuedAboveEveryPage ==
    \A u \in Uploads :
        Allocated(u) =>
            \A id \in ChildPages(uploads[u].documentId) :
                document_pages[id].page_number < NextToIssue(u)

\* C5, amended: with uploads served one at a time, the number about to be
\* issued is greater than the page_number of every active page of the
\* document, so no active page of the document holds it.
C5_IssuedAboveEveryActivePage ==
    \A u \in Uploads :
        Allocated(u) =>
            \A id \in ActivePagesOf(document_pages, uploads[u].documentId) :
                document_pages[id].page_number < NextToIssue(u)

\* a number was read for a document that has an active page and a
\* soft-deleted page holding that very number
C5_Witness ==
    \E u \in Uploads :
        /\ Allocated(u)
        /\ ActivePagesOf(document_pages, uploads[u].documentId) # {}
        /\ \E id \in ChildPages(uploads[u].documentId) :
               /\ ~IsActive(document_pages[id])
               /\ document_pages[id].page_number = NextToIssue(u)

Failed(u) ==
    /\ uploads[u].pc = "done"
    /\ Val(uploads[u].res).status = HTTP_INTERNAL_SERVER_ERROR
    /\ ~Val(uploads[u].res).success

\* C7: when the rasterization of the uploaded PDF fails, the upload is
\* answered as a failure (500, success false), the request has inserted no
\* page row, and the failing step itself changes neither the pages nor the
\* documents.
C7_RasterizeFailureIsExplicit ==
    /\ [](\A u \in Uploads :
             uploads[u].rasterFailed => Failed(u) /\ uploads[u].pageRecords = <<>>)
    /\ [][\A u \in Uploads :
             ~uploads[u].rasterFailed /\ uploads'[u].rasterFailed =>
                 /\ document_pages' = document_pages
                 /\ documents' = documents
                 /\ document_fts' = document_fts]_vars

\* the rasterization of a PDF failed for a document that already has pages
C7_Witness ==
    \E u \in Uploads :
        /\ uploads[u].rasterFailed
        /\ uploads[u].isPdf
        /\ Failed(u)
        /\ ActivePagesOf(document_pages, uploads[u].documentId) # {}

\* C8: once an upload has failed in rasterization, neither the uploaded
\* source file nor any renderer output of that upload is left on disk.
C8_NoTempFilesAfterRasterizeFailure ==
    \A u \in Uploads :
        uploads[u].rasterFailed /\ uploads[u].pc = "done" =>
            /\ ~files[u].source
            /\ files[u].raster = 0

\* the page row a request inserted at loop index j (0-based)
RowAt(u, j) == document_pages[uploads[u].pageRecords[j + 1].id]

NullOcrFields(row) ==
    /\ IsNull(row.ocr_text)
    /\ IsNull(row.ocr_confidence)
    /\ ~row.ocr_processed
    /\ row.word_count = 0

ResponseErrors(res) == IF "errors" \in DOMAIN res THEN res.errors ELSE {}

\* an upload that went through although the OCR of one of its pages threw
SucceededWithOcrFailure(u) == Succeeded(u) /\ uploads[u].ocrThrew # {}

ReadSameNumber(u1, u2) ==
    /\ u1 # u2
    /\ uploads[u1].pc # "idle" /\ uploads[u2].pc # "idle"
    /\ uploads[u1].documentId = uploads[u2].documentId
    /\ uploads[u1].startingPageNumber > 0
    /\ uploads[u1].startingPageNumber = uploads[u2].startingPageNumber
    /\ uploads[u1].pageRecords # <<>> /\ uploads[u2].pageRecords # <<>>

\* C6: when two overlapping uploads to one document have read the same next
\* page number, the first page of each is persisted under that number: two
\* different active rows of the document with the same page_number.
C6_SameNumberPersistedTwice ==
    \A u1, u2 \in Uploads :
        ReadSameNumber(u1, u2) =>
            /\ uploads[u1].pageRecords[1].id # uploads[u2].pageRecords[1].id
            /\ RowAt(u1, 0).document_id = RowAt(u2, 0).document_id
            /\ RowAt(u1, 0).page_number = uploads[u1].startingPageNumber
            /\ RowAt(u2, 0).page_number = uploads[u1].startingPageNumber
            /\ IsActive(RowAt(u1, 0)) /\ IsActive(RowAt(u2, 0))

\* two overlapping uploads to one document both succeeded and left two
\* active pages of the document with the same page_number
C6_Witness ==
    /\ \E u1, u2 \in Uploads :
           ReadSameNumber(u1, u2) /\ Succeeded(u1) /\ Succeeded(u2)
    /\ \E d \in Docs :
           \E id1, id2 \in ActivePagesOf(document_pages, d) :
               /\ id1 # id2
               /\ document_pages[id1].page_number = document_pages[id2].page_number

\* the thumbnail_path values that stand for "no thumbnail": NULL, or the
\* path of a stand-in picture
NoThumbnailPaths == {Null, Some("placeholder")}

\* C11: every page whose thumbnail could not be made is inserted all the
\* same, the pages after it are inserted too (k rows once the loop is over),
\* and the row of such a page holds a null or placeholder thumbnail_path.
C11_ThumbnailFailureLeavesNoPath ==
    \A u \in Uploads :
        /\ \A j \in uploads[u].thumbMissing :
               /\ j < Len(uploads[u].pageRecords)
               /\ IsActive(RowAt(u, j))
               /\ RowAt(u, j).thumbnail_path \in NoThumbnailPaths
        /\ LoopFinished(u) => Len(uploads[u].pageRecords) = uploads[u].k

\* the reorder request was answered with success
Reordered == reorderReq.pc = "done" /\ Val(reorderReq.res).status = HTTP_OK

\* the pair names a page of the document of the request
NamesOwnPage(pageUpdate) ==
    /\ pageUpdate.page_id \in 1..Len(reorderReq.before)
    /\ reorderReq.before[pageUpdate.page_id].document_id = reorderReq.documentId

\* the pairs of the payload that name pages of the document of the request
OwnPairs ==
    {j \in 1..Len(reorderReq.page_order) : NamesOwnPage(reorderReq.page_order[j])}

\* C12: a reorder of an active document with a non-empty payload is answered
\* with success, whatever pages its pairs name; it leaves every page of any
\* other document as it was; a pair naming a page of another document
\* changes no row, and every pair naming a page of the document is applied:
\* updated_pages counts exactly those pairs.
C12_ReorderIsolatedByDocument ==
    /\ reorderReq.pc = "done" /\ reorderReq.page_order # <<>>
           /\ DocumentIsActive(documents, reorderReq.documentId) => Reordered
    /\ Reordered =>
           /\ Len(document_pages) = Len(reorderReq.before)
           /\ \A id \in PageIds :
                  reorderReq.before[id].document_id # reorderReq.documentId =>
                      document_pages[id] = reorderReq.before[id]
           /\ \A j \in OwnPairs :
                  LET pageUpdate == reorderReq.page_order[j] IN
                  /\ document_pages[pageUpdate.page_id].page_number
                         = pageUpdate.new_page_number
                  /\ document_pages[pageUpdate.page_id].page_order
                         = pageUpdate.new_page_number
           /\ Val(reorderReq.res).updated_pages = Cardinality(OwnPairs)

\* a reorder of two pairs went through: one pair named a page of another
\* document, which kept its number, the other renumbered a page of the
\* document
C12_Witness ==
    /\ Reordered
    /\ Len(reorderReq.page_order) = 2
    /\ Val(reorderReq.res).updated_pages = 1
    /\ \E j, o \in 1..2 :
           LET foreign == reorderReq.page_order[j]
               own     == reorderReq.page_order[o]
           IN  /\ foreign.page_id \in PageIds
               /\ ~NamesOwnPage(foreign)
               /\ reorderReq.before[foreign.page_id].page_number # foreign.new_page_number
               /\ NamesOwnPage(own)
               /\ reorderReq.before[own.page_id].page_number # own.new_page_number
               /\ document_pages[own.page_id].page_number = own.new_page_number

\* the index rows that refer to the document or to one of its pages
FtsRowsOfDocument(documentId) ==
    {r \in DOMAIN document_fts :
        r.document_id = documentId \/ r.page_id \in ChildPages(documentId)}

\* C13: with requests served one at a time, a soft-deleted document has no
\* active page and the index holds no entry of any of its pages.
C13_SoftDeletedDocumentHasNoPagesNoEntries ==
    \A d \in Docs :
        ~DocumentIsActive(documents, d) =>
            /\ ActivePagesOf(document_pages, d) = {}
            /\ FtsRowsOfDocument(d) = {}

\* a soft-deleted document with two pages that carry OCR text
C13_Witness ==
    \E d \in Docs :
        /\ ~DocumentIsActive(documents, d)
        /\ \E id1, id2 \in ChildPages(d) :
               /\ id1 # id2
               /\ Trim(OcrTextOf(document_pages[id1])) # <<>>
               /\ Trim(OcrTextOf(document_pages[id2])) # <<>>

\* the document row has the status a soft-delete gives it
SoftDeleted(documentId) == documents[documentId].status = INACTIVE

\* the request was answered 'Document not found'
NotFound(res) == ~IsNull(res) /\ Val(res).status = HTTP_NOT_FOUND

\* C14: with requests served one at a time, no step taken while a document
\* is soft-deleted (an upload, a batch re-OCR, a reorder, or any other
\* operation) changes that: the document stays inactive, it gets no new
\* page, each of its page rows stays as it is (inactive), and the index
\* gets no entry of it.
C14_SoftDeleteNotReversible ==
    [][\A d \in Docs :
          SoftDeleted(d) =>
              /\ SoftDeleted(d)'
              /\ ChildPages(d)' = ChildPages(d)
              /\ \A id \in ChildPages(d) :
                     /\ document_pages'[id] = document_pages[id]
                     /\ ~IsActive(document_pages'[id])
              /\ FtsRowsOfDocument(d)' = {}]_vars

\* an upload into a soft-deleted document that has pages was answered
\* 'Document not found'
C14_Witness ==
    \E u \in Uploads :
        /\ uploads[u].pc = "done"
        /\ NotFound(uploads[u].res)
        /\ SoftDeleted(uploads[u].documentId)
        /\ ChildPages(uploads[u].documentId) # {}

\* C15: a soft-delete of an active page that has an index entry leaves
\* total_pages of the page's document exactly 1 below what it was.
C15_PageDeleteDecrementsTotalPages ==
    [][\A pageId \in PageIds :
          /\ IsActive(document_pages[pageId])
          /\ Indexed(pageId)
          /\ SoftDeletePage(pageId)
          => documents'[document_pages[pageId].document_id].total_pages
                 = documents[document_pages[pageId].document_id].total_pages - 1]_vars

\* the text is not empty once trimmed
HasTextTrimmed(ocrText) == Truthy(ocrText) /\ Trim(Val(ocrText)) # <<>>

Qualifies(pageId) ==
    /\ IsActive(document_pages[pageId])
    /\ documents[document_pages[pageId].document_id].status = ACTIVE
    /\ OcrTextOf(document_pages[pageId]) # <<>>

\* C17: after rebuildFTSIndex() the index holds exactly one row, with the
\* page's text, for each active page of an active document that has
\* non-empty ocr_text, it holds no other row, and the count returned is the
\* number of those pages.
C17_RebuildIndexesQualifyingPages ==
    call.op = "rebuildFTSIndex" =>
        /\ \A pageId \in PageIds :
               IF Qualifies(pageId)
               THEN /\ FtsEntriesOf(document_fts, pageId) = 1
                    /\ FtsRow(pageId, document_pages[pageId].document_id,
                              OcrTextOf(document_pages[pageId])) \in DOMAIN document_fts
               ELSE FtsEntriesOf(document_fts, pageId) = 0
        /\ \A r \in DOMAIN document_fts : r.page_id \in PageIds
        /\ call.result = Cardinality({pageId \in PageIds : Qualifies(pageId)})
        /\ FtsCount(document_fts) = call.result

\* a rebuild found one qualifying page next to an active page, with text, of
\* a soft-deleted document, and dropped the entry that page had
C17_Witness ==
    /\ call.op = "rebuildFTSIndex"
    /\ call.result = 1
    /\ \E pageId \in PageIds :
           /\ IsActive(document_pages[pageId])
           /\ OcrTextOf(document_pages[pageId]) # <<>>
           /\ ~Qualifies(pageId)
           /\ FtsEntriesOf(call.before, pageId) = 1

\* C18: a rebuildFTSIndex() that directly follows another one, with no
\* write in between, returns the same count and leaves the index with the
\* same number of rows as the first.
C18_RebuildTwiceSameCount ==
    call.op = "rebuildFTSIndex" /\ ~IsNull(call.prev) =>
        /\ call.result = Val(call.prev)
        /\ FtsCount(document_fts) = FtsCount(call.before)
        /\ document_fts = call.before

\* a second rebuild in a row over two qualifying pages
C18_Witness ==
    /\ call.op = "rebuildFTSIndex"
    /\ call.prev = Some(2)
    /\ FtsCount(document_fts) = 2

\* the matches a search returned, whichever of the two searches answered:
\* (page, document, project) triples
ReturnedMatches ==
    IF call.op = "searchDocuments" THEN Val(call.response).results
    ELSE IF call.op = "search"
    THEN LET results == Val(call.response).results
         IN  UNION {{SearchRow(results[e].matches[m].page_id, results[e].document_id) :
                        m \in DOMAIN results[e].matches} : e \in DOMAIN results}
    ELSE {}

\* the caller of the search has no admin_access permission
NonAdminSearch ==
    /\ call.op \in {"searchDocuments", "search"}
    /\ "admin_access" \notin PermissionsOf(call.userId)

C20_ResultsActiveAtEveryLevel ==
    \A r \in ReturnedMatches :
        /\ documents[r.document_id].status = ACTIVE
        /\ projects[r.project_id].status = ACTIVE
        /\ ~IsNull(r.page_id) => IsActive(document_pages[Val(r.page_id)])

C23_DefaultModeLeavesPagesWithText ==
    [][/\ ocrJob.pc = "idle" /\ ocrJob'.pc = "run" =>
            LET chosen == {ocrJob'.pending[k].id : k \in DOMAIN ocrJob'.pending}
                active == ActivePagesOf(document_pages, ocrJob'.documentId)
            IN  IF ocrJob'.forceReprocess
                THEN chosen = active
                ELSE /\ chosen \subseteq active
                     /\ \A id \in chosen : ~Truthy(document_pages[id].ocr_text)
       /\ ocrJob.pc = "run" /\ ~ocrJob.forceReprocess /\ ocrJob' # ocrJob =>
            \A id \in PageIds :
                Truthy(document_pages[id].ocr_text) =>
                    /\ document_pages'[id].ocr_text = document_pages[id].ocr_text
                    /\ \A r \in {x \in DOMAIN document_fts \cup DOMAIN document_fts' :
                                     x.page_id = id} :
                           /\ r \in DOMAIN document_fts /\ r \in DOMAIN document_fts'
                           /\ document_fts'[r] = document_fts[r]]_vars

\* a batch re-OCR without force_reprocess ended after selecting and
\* processing one page of a document that has another active page, which
\* had text and was not selected
C23_Witness ==
    /\ ocrJob.pc = "done"
    /\ ~ocrJob.forceReprocess
    /\ ocrJob.selected = 1
    /\ ocrJob.processedCount = 1
    /\ Cardinality({id \in ActivePagesOf(document_pages, ocrJob.documentId) :
                        Truthy(document_pages[id].ocr_text)}) >= 2

\* C24: every iteration of the batch re-OCR loop takes the next selected
\* page whatever happened to the pages before it: it either counts the page
\* as processed or adds one error entry for it and writes nothing, and the
\* loop ends only after the last selected page, answering 200 with the
\* count of processed pages and the list of the error entries, which
\* together account for every selected page.
C24_BatchOcrPagesIndependent ==
    [][ocrJob.pc = "run" /\ ocrJob' # ocrJob =>
          LET page == Head(ocrJob.pending) IN
          /\ ocrJob'.pending = Tail(ocrJob.pending)
          /\ ocrJob'.pc = IF Tail(ocrJob.pending) = <<>> THEN "done" ELSE "run"
          /\ \/ /\ ocrJob'.processedCount = ocrJob.processedCount + 1
                /\ ocrJob'.errors = ocrJob.errors
             \/ /\ ocrJob'.processedCount = ocrJob.processedCount
                /\ ocrJob'.errors = Append(ocrJob.errors, page.page_number)
                /\ UNCHANGED <<document_pages, document_fts>>
          /\ ocrJob'.pc = "done" =>
                LET res == Val(ocrJob'.res) IN
                /\ res.status = HTTP_OK
                /\ res.processed_pages = ocrJob'.processedCount
                /\ res.processed_pages + Len(ocrJob'.errors) = ocrJob.selected
                /\ res.errors = IF ocrJob'.errors = <<>> THEN Null
                                 ELSE Some(ocrJob'.errors)]_vars

\* a run over two pages without text ended: the first page failed and is
\* named in the errors, the second was processed and now has text
C24_Witness ==
    /\ ocrJob.pc = "done"
    /\ ocrJob.selected = 2
    /\ Val(ocrJob.res).processed_pages = 1
    /\ \E first, second \in ActivePagesOf(document_pages, ocrJob.documentId) :
           /\ document_pages[first].page_number < document_pages[second].page_number
           /\ Val(ocrJob.res).errors = Some(<<document_pages[first].page_number>>)
           /\ ~Truthy(document_pages[first].ocr_text)
           /\ Truthy(document_pages[second].ocr_text)

\* C25: the step that answers 400 to an upload, to a page reorder or to a
\* search changes no page row, no document row and no index row, and the
\* request leaves no stored file behind.
C25_RejectedInputWritesNothing ==
    [][/\ \A u \in Uploads :
              /\ uploads[u].pc # "done" /\ uploads'[u].pc = "done"
              /\ Val(uploads'[u].res).status = HTTP_BAD_REQUEST
              => /\ UNCHANGED <<documents, document_pages, document_fts>>
                 /\ files'[u] = NoFiles
       /\ /\ reorderReq.pc = "idle" /\ reorderReq'.pc # "idle"
          /\ Val(reorderReq'.res).status = HTTP_BAD_REQUEST
          => UNCHANGED <<documents, document_pages, document_fts, files>>
       /\ /\ call.op = "none" /\ call'.op = "search"
          /\ Val(call'.response).status = HTTP_BAD_REQUEST
          => UNCHANGED <<documents, document_pages, document_fts, files>>]_vars

C27_FailedBatchKeepsTotalPages ==
    \A u \in Uploads :
        Failed(u) /\ uploads[u].pageRecords # <<>> =>
            Cardinality(ActivePagesOf(document_pages, uploads[u].documentId))
                = documents[uploads[u].documentId].total_pages

\* C28: when an upload into an active document has succeeded and a page it
\* had inserted was soft-deleted before its total_pages increment, the
\* document's total_pages equals the number of its active pages.
C28_PageDeleteDuringUploadKeepsCount ==
    \A u \in Uploads :
        /\ Succeeded(u)
        /\ documents[uploads[u].documentId].status = ACTIVE
        /\ \E j \in 0..(Len(uploads[u].pageRecords) - 1) : ~IsActive(RowAt(u, j))
        => Cardinality(ActivePagesOf(document_pages, uploads[u].documentId))
               = documents[uploads[u].documentId].total_pages

\* C29: when an upload that went past its document check has been answered
\* and its document is soft-deleted by then, the document has no active page
\* and no index row.
C29_DocumentDeleteDuringUploadLeavesNothing ==
    \A u \in Uploads :
        /\ uploads[u].pc = "done"
        /\ Val(uploads[u].res).status \in {HTTP_OK, HTTP_INTERNAL_SERVER_ERROR}
        /\ SoftDeleted(uploads[u].documentId)
        => /\ ActivePagesOf(document_pages, uploads[u].documentId) = {}
           /\ FtsRowsOfDocument(uploads[u].documentId) = {}

\* C30: with one request at a time, no two active pages of a document carry
\* the same page_number, whatever uploads, page deletes and reorders ran.
C30_ActivePageNumbersDistinct ==
    \A p, q \in PageIds :
        /\ p # q
        /\ IsActive(document_pages[p])
        /\ IsActive(document_pages[q])
        /\ document_pages[p].document_id = document_pages[q].document_id
        => document_pages[p].page_number # document_pages[q].page_number

=============================================================================
